---- MODULE Spec2Model ----
(***************************************************************************)
(* checkmyreqs: a requirements file is parsed into a mapping from package  *)
(* name to pinned version, and every package of the mapping is looked up   *)
(* on the package index and compared with the target Python version.       *)
(*                                                                         *)
(* Text is modelled as it is in the program: a string is a sequence of     *)
(* one-character strings, so "a==1" is <<"a","=","=","1">>.  strip,        *)
(* startswith, split, the membership tests and the message formatting      *)
(* work on these sequences character by character.                         *)
(***************************************************************************)
EXTENDS Integers, Sequences, FiniteSets, TLC

VARIABLES
    pc,             \* position in main: "args", "version", "files", "parse", "check", "done", "exited", "crashed"
    python,         \* args.python
    stop_at_error,  \* args.error
    nfiles,         \* len(args_files)
    fileIdx,        \* number of files of args_files opened by the loop of main
    read,           \* the lines parse_requirements_file has consumed, while it runs
    packages,       \* the dict parse_requirements_file builds
    pending,        \* keys of packages the loop of check_packages has not visited yet
    out,            \* what was printed since the last file was opened: a sequence of [colour, text]
    exitMsg,        \* the argument of sys.exit, <<>> while none was called
    calls,          \* the XML-RPC calls made for the current file
    lastCheck       \* what the index answered in the last pass of the loop of check_packages on the current file

vars == <<pc, python, stop_at_error, nfiles, fileIdx, read, packages, pending,
          out, exitMsg, calls, lastCheck>>

----------------------------------------------------------------------------
(* Bounds of the model. *)

MaxFiles == 2
MaxLines == 2

----------------------------------------------------------------------------
(* Python's str and list operations. *)

Whitespace == {" ", "\t", "\n", "\r"}

RECURSIVE lstrip(_)
lstrip(s) ==
    IF s # <<>> /\ Head(s) \in Whitespace THEN lstrip(Tail(s)) ELSE s

RECURSIVE rstrip(_)
rstrip(s) ==
    IF s # <<>> /\ s[Len(s)] \in Whitespace THEN rstrip(SubSeq(s, 1, Len(s) - 1)) ELSE s

strip(s) == rstrip(lstrip(s))

startswith(s, prefix) ==
    Len(prefix) <= Len(s) /\ SubSeq(s, 1, Len(prefix)) = prefix

\* s.find(sub), counted from 1; 0 when sub does not occur
find(s, sub) ==
    LET hits == {i \in 1..(Len(s) - Len(sub) + 1) : SubSeq(s, i, i + Len(sub) - 1) = sub}
    IN  IF hits = {} THEN 0 ELSE CHOOSE i \in hits : \A j \in hits : i <= j

\* sub in s
Contains(s, sub) == find(s, sub) # 0

\* s.split(sep): the parts between the non-overlapping occurrences of sep, left to right
RECURSIVE split(_, _)
split(s, sep) ==
    LET i == find(s, sep)
    IN  IF i = 0 THEN <<s>>
        ELSE <<SubSeq(s, 1, i - 1)>> \o split(SubSeq(s, i + Len(sep), Len(s)), sep)

\* x in list
InList(x, list) == \E i \in 1..Len(list) : list[i] = x

\* dict.get(key, default) on a dict held as a set of <<key, value>> pairs
DictGet(d, key, default) ==
    IF \E p \in d : p[1] = key THEN (CHOOSE p \in d : p[1] = key)[2] ELSE default

\* packages[key] = value
DictSet(d, key, value) ==
    [k \in DOMAIN d \cup {key} |-> IF k = key THEN value ELSE d[k]]

EmptyDict == [k \in {} |-> <<>>]

----------------------------------------------------------------------------
(* The texts of the program. *)

IGNORED_PREFIXES ==
    << <<"#">>, <<"g","i","t","+">>, <<"h","g","+">>, <<"s","v","n","+">>,
       <<"b","z","r","+">>, <<"\n">>, <<"\r","\n">> >>

PinDelimiter == <<"=","=">>

Dot == <<".">>

Space == <<" ">>

ClassifierPrefix ==
    <<"P","r","o","g","r","a","m","m","i","n","g"," ","L","a","n","g","u","a","g","e",
      " ",":",":"," ","P","y","t","h","o","n"," ",":",":">>

MsgNoVersion ==
    <<" ","d","o","e","s"," ","n","o","t"," ","h","a","v","e"," ","a"," ","v","a","l","i","d",
      " ","v","e","r","s","i","o","n"," ","n","u","m","b","e","r">>

MsgNotCompatible ==
    <<" ","n","o","t"," ","c","o","m","p","a","t","i","b","l","e"," ","w","i","t","h",
      " ","P","y","t","h","o","n"," ">>

MsgUpdateTo == <<" ","-"," ","u","p","d","a","t","e"," ","t","o"," ","v">>

MsgForSupport == <<" ","f","o","r"," ","s","u","p","p","o","r","t">>

MsgForExplicitSupport ==
    <<" ","f","o","r"," ","e","x","p","l","i","c","i","t"," ","s","u","p","p","o","r","t">>

MsgNotSpecified ==
    <<" ","v","e","r","s","i","o","n"," ","n","o","t"," ","s","p","e","c","i","f","i","e","d">>

MsgNotAvailable ==
    <<" ","n","o","t"," ","a","v","a","i","l","a","b","l","e"," ","o","n"," ","p","i","p">>

MsgArgumentInvalid ==
    <<"P","y","t","h","o","n"," ","a","r","g","u","m","e","n","t"," ","i","n","v","a","l","i","d",
      ":"," ","M","u","s","t"," ","b","e"," ","i","n"," ","X",".","Y"," ","f","o","r","m","a","t",
      ","," ","w","h","e","r","e"," ","X"," ","i","s"," ","2"," ","o","r"," ","3"," ","a","n","d",
      " ","Y"," ","i","s"," ","0","-","9">>

MsgDefaultMissing ==
    <<"D","e","f","a","u","l","t"," ","f","i","l","e"," ","r","e","q","u","i","r","e","m","e","n",
      "t","s",".","t","x","t"," ","n","o","t"," ","f","o","u","n","d">>

MsgChecking ==
    <<"C","h","e","c","k","i","n","g"," ","d","e","p","e","n","d","e","n","c","i","e","s"," ",
      "f","o","r"," ","c","o","m","p","a","t","i","b","i","l","i","t","y"," ","w","i","t","h",
      " ","P","y","t","h","o","n"," ">>

MsgFileRule == <<"\r","\n","*","*","*","*","*">>

MsgNewline == <<"\n">>

DecimalDigits == <<"0","1","2","3","4","5","6","7","8","9">>

----------------------------------------------------------------------------
(* The inputs the model draws from. *)

\* values of the -p argument
Targets ==
    { <<"3",".","6">>, <<"2",".","7">>, <<"3","x","6">>,
      <<"3",".","6","\n">>, <<"3",".","1","0">>, <<"4",".","0">>, <<"3">> }

\* lines of a requirements file, as the file iterator hands them over
Lines ==
    { <<"\n">>,
      <<" ","#"," ","c","\n">>,
      <<"g","i","t","+","u","\n">>,
      <<"h","g","+","u","\n">>,
      <<"s","v","n","+","u","\n">>,
      <<"b","z","r","+","u">>,
      <<"a","=","=","1","\n">>,
      <<" ","a","=","=","2">>,
      <<"b","=","=","1","\n">>,
      <<"b","\n">>,
      <<"a","=","=","1","=","=","2","\n">> }

\* the name of the i-th file of args_files
FileName(i) == <<"r","e","q">> \o <<DecimalDigits[i + 1]>>

\* classifiers of a release on the index
Classifier(version) == ClassifierPrefix \o Space \o version

ClassifierLicense ==
    <<"L","i","c","e","n","s","e"," ",":",":"," ","O","S","I"," ","A","p","p","r","o","v","e","d">>

ClassifierLists ==
    { <<ClassifierLicense>>,
      <<Classifier(<<"2",".","7">>)>>,
      <<ClassifierLicense, Classifier(<<"3">>)>>,
      <<Classifier(<<"2",".","7">>), Classifier(<<"3",".","6">>)>> }

\* what release_data returns: a dict, with or without the key 'classifiers'
KeyClassifiers == <<"c","l","a","s","s","i","f","i","e","r","s">>

EmptyInfo == {}

Infos == {EmptyInfo} \cup { {<<KeyClassifiers, cl>>} : cl \in ClassifierLists }

\* what package_releases returns: the versions of a package, newest first
ReleaseLists == { <<>>, << <<"1">> >>, << <<"2">>, <<"1">> >> }

Versions == { <<"1">>, <<"2">> }

\* the index's entry of one package at the time it is looked up
IndexEntries == [releases : ReleaseLists, data : [Versions -> Infos]]

\* CLIENT.release_data(package_name, version)
release_data(entry, version) ==
    IF version \in DOMAIN entry.data THEN entry.data[version] ELSE EmptyInfo

\* CLIENT.package_releases(package_name)
package_releases(entry) == entry.releases

----------------------------------------------------------------------------
(* parse_requirements_file *)

\* Ignored without the test `not line`: an empty line is not dropped
Ignored_NoEmptyTest(line) ==
    \E i \in 1..Len(IGNORED_PREFIXES) : startswith(line, IGNORED_PREFIXES[i])

\* the loop over IGNORED_PREFIXES: the line is dropped when it is empty or
\* starts with one of the prefixes
Ignored(line) ==
    \E i \in 1..Len(IGNORED_PREFIXES) :
        line = <<>> \/ startswith(line, IGNORED_PREFIXES[i])

\* parse_line with stop_at_error left unread: an unpinned line always warns
parse_line_AlwaysWarns(raw, strict) ==
    LET line == strip(raw)
        parts == split(line, PinDelimiter)
    IN  IF Ignored(line) THEN [kind |-> "skip", name |-> <<>>, version |-> <<>>, msg |-> <<>>]
        ELSE IF Contains(line, PinDelimiter)
        THEN IF Len(parts) = 2
             THEN [kind |-> "pin", name |-> parts[1], version |-> parts[2], msg |-> <<>>]
             ELSE [kind |-> "raise", name |-> <<>>, version |-> <<>>, msg |-> <<>>]
        ELSE [kind |-> "warn", name |-> <<>>, version |-> <<>>, msg |-> line \o MsgNoVersion]

\* what one pass of the loop of parse_requirements_file does with a raw line:
\*   "skip"    the line is dropped
\*   "pin"     packages[name] = version
\*   "raise"   package_name, version = line.split('==') raises ValueError
\*   "exit"    sys.exit(msg)
\*   "warn"    print(TERMINAL.yellow(msg))
parse_line(raw, strict) ==
    LET line == strip(raw)
        parts == split(line, PinDelimiter)
    IN  IF Ignored(line) THEN [kind |-> "skip", name |-> <<>>, version |-> <<>>, msg |-> <<>>]
        ELSE IF Contains(line, PinDelimiter)
        THEN IF Len(parts) = 2
             THEN [kind |-> "pin", name |-> parts[1], version |-> parts[2], msg |-> <<>>]
             ELSE [kind |-> "raise", name |-> <<>>, version |-> <<>>, msg |-> <<>>]
        ELSE [kind |-> IF strict THEN "exit" ELSE "warn",
              name |-> <<>>, version |-> <<>>, msg |-> line \o MsgNoVersion]

----------------------------------------------------------------------------
(* get_supported_pythons and check_packages *)

RECURSIVE SupportedOf(_)
SupportedOf(classifiers) ==
    IF classifiers = <<>> THEN <<>>
    ELSE LET c == Head(classifiers)
             fields == split(c, Space)
         IN  (IF startswith(c, ClassifierPrefix)
              THEN <<strip(fields[Len(fields)])>> ELSE <<>>)
             \o SupportedOf(Tail(classifiers))

get_supported_pythons(package_info) ==
    SupportedOf(DictGet(package_info, KeyClassifiers, <<>>))

\* python_version.split('.')[0]
major_python_version(python_version) == split(python_version, Dot)[1]

\* Compatible without the test of the major version
Compatible_ExactOnly(python_version, supported_pythons) ==
    InList(python_version, supported_pythons)

\* the two branches of check_packages that pass
Compatible(python_version, supported_pythons) ==
    \/ InList(python_version, supported_pythons)
    \/ InList(major_python_version(python_version), supported_pythons)

\* UpgradeAvailable with the rule of Compatible: the major version counts too
UpgradeAvailable_MajorToo(python_version, latest_supported_pythons, latest_version, wording) ==
    IF \/ InList(python_version, latest_supported_pythons)
       \/ InList(major_python_version(python_version), latest_supported_pythons)
    THEN MsgUpdateTo \o latest_version \o wording
    ELSE <<>>

\* upgrade_available, with the wording of the branch
UpgradeAvailable(python_version, latest_supported_pythons, latest_version, wording) ==
    IF InList(python_version, latest_supported_pythons)
    THEN MsgUpdateTo \o latest_version \o wording
    ELSE <<>>

Call(method, name, version) == [method |-> method, name |-> name, version |-> version]

NoVersion == <<>>

\* the two calls every pass of the loop of check_packages starts with
FirstCalls(package_name, package_version) ==
    << Call("release_data", package_name, package_version),
       Call("package_releases", package_name, NoVersion) >>

\* '{}={}'.format(package_name, package_version)
Pinned(package_name, package_version) == package_name \o <<"=">> \o package_version

\* A pass of the loop of check_packages over the index's entry of the package
\* yields the calls it made, what they returned, the message it built and the
\* colour the message is printed in when it is not fatal.

\* the branches that pass: nothing is said ("none")
Passes(package_name, package_version, python_version, entry) ==
    [calls |-> FirstCalls(package_name, package_version),
     colour |-> "none", msg |-> <<>>,
     info |-> release_data(entry, package_version),
     releases |-> package_releases(entry),
     fetched |-> FALSE, latest |-> EmptyInfo]

\* the else branch of `if package_releases`
NotAvailable(package_name, package_version, python_version, entry) ==
    [calls |-> FirstCalls(package_name, package_version),
     colour |-> "red",
     msg |-> Pinned(package_name, package_version) \o MsgNotAvailable,
     info |-> release_data(entry, package_version),
     releases |-> package_releases(entry),
     fetched |-> FALSE, latest |-> EmptyInfo]

\* NotSupported with the colours of its two branches swapped
NotSupported_ColoursSwapped(package_name, package_version, python_version, entry) ==
    LET supported_pythons == get_supported_pythons(release_data(entry, package_version))
        latest_version == package_releases(entry)[1]
        latest_package_info == release_data(entry, latest_version)
        latest_supported_pythons == get_supported_pythons(latest_package_info)
    IN  [calls |-> Append(FirstCalls(package_name, package_version),
                          Call("release_data", package_name, latest_version)),
         colour |-> IF supported_pythons # <<>> THEN "yellow" ELSE "red",
         msg |-> IF supported_pythons # <<>>
                 THEN Pinned(package_name, package_version) \o MsgNotCompatible
                      \o python_version
                      \o UpgradeAvailable(python_version, latest_supported_pythons,
                                          latest_version, MsgForSupport)
                 ELSE Pinned(package_name, package_version) \o MsgNotSpecified
                      \o UpgradeAvailable(python_version, latest_supported_pythons,
                                          latest_version, MsgForExplicitSupport),
         info |-> release_data(entry, package_version),
         releases |-> package_releases(entry),
         fetched |-> TRUE, latest |-> latest_package_info]

\* the else branch of the two compatibility tests: the newest release is
\* looked up, and the message depends on whether the pinned release declares
\* anything
NotSupported(package_name, package_version, python_version, entry) ==
    LET supported_pythons == get_supported_pythons(release_data(entry, package_version))
        latest_version == package_releases(entry)[1]
        latest_package_info == release_data(entry, latest_version)
        latest_supported_pythons == get_supported_pythons(latest_package_info)
    IN  [calls |-> Append(FirstCalls(package_name, package_version),
                          Call("release_data", package_name, latest_version)),
         colour |-> IF supported_pythons # <<>> THEN "red" ELSE "yellow",
         msg |-> IF supported_pythons # <<>>
                 THEN Pinned(package_name, package_version) \o MsgNotCompatible
                      \o python_version
                      \o UpgradeAvailable(python_version, latest_supported_pythons,
                                          latest_version, MsgForSupport)
                 ELSE Pinned(package_name, package_version) \o MsgNotSpecified
                      \o UpgradeAvailable(python_version, latest_supported_pythons,
                                          latest_version, MsgForExplicitSupport),
         info |-> release_data(entry, package_version),
         releases |-> package_releases(entry),
         fetched |-> TRUE, latest |-> latest_package_info]

\* check_package with the compatibility tests made before the test of the release list
check_package_CompatibleFirst(package_name, package_version, python_version, entry) ==
    IF Compatible(python_version,
                  get_supported_pythons(release_data(entry, package_version)))
    THEN Passes(package_name, package_version, python_version, entry)
    ELSE IF package_releases(entry) # <<>>
         THEN NotSupported(package_name, package_version, python_version, entry)
         ELSE NotAvailable(package_name, package_version, python_version, entry)

\* one pass of the loop of check_packages
check_package(package_name, package_version, python_version, entry) ==
    IF package_releases(entry) # <<>>
    THEN IF Compatible(python_version,
                       get_supported_pythons(release_data(entry, package_version)))
         THEN Passes(package_name, package_version, python_version, entry)
         ELSE NotSupported(package_name, package_version, python_version, entry)
    ELSE NotAvailable(package_name, package_version, python_version, entry)

----------------------------------------------------------------------------
(* main *)

\* re.match('^[2-3].[0-9]$', s) is not None: '.' is any character but a
\* newline, and '$' also matches just before a trailing newline
VersionFormatOk(s) ==
    /\ Len(s) >= 3
    /\ s[1] \in {"2", "3"}
    /\ s[2] # "\n"
    /\ InList(s[3], DecimalDigits)
    /\ \/ Len(s) = 3
       \/ Len(s) = 4 /\ s[4] = "\n"

Printed(colour, text) == [colour |-> colour, text |-> text]

NoCheck ==
    [name |-> <<>>, version |-> <<>>, info |-> EmptyInfo, releases |-> <<>>,
     fetched |-> FALSE, latest |-> EmptyInfo]

Init ==
    /\ pc = "args"
    /\ python \in Targets
    /\ stop_at_error \in BOOLEAN
    /\ nfiles = 0
    /\ fileIdx = 0
    /\ read = <<>>
    /\ packages = EmptyDict
    /\ pending = {}
    /\ out = <<>>
    /\ exitMsg = <<>>
    /\ calls = <<>>
    /\ lastCheck = NoCheck

\* args_files is args.files, [sys.stdin] or [open('requirements.txt')]
ResolveFiles ==
    /\ pc = "args"
    /\ \E n \in 1..MaxFiles : nfiles' = n
    /\ pc' = "version"
    /\ UNCHANGED <<python, stop_at_error, fileIdx, read, packages, pending, out,
                   exitMsg, calls, lastCheck>>

\* no -f, a terminal on stdin and no requirements.txt
DefaultFileMissing ==
    /\ pc = "args"
    /\ pc' = "exited"
    /\ exitMsg' = MsgDefaultMissing
    /\ UNCHANGED <<python, stop_at_error, nfiles, fileIdx, read, packages, pending,
                   out, calls, lastCheck>>

\* the format check of args.python and the first print
ValidateVersion ==
    /\ pc = "version"
    /\ IF VersionFormatOk(python)
       THEN /\ out' = Append(out, Printed("plain", MsgChecking \o python))
            /\ pc' = "files"
            /\ UNCHANGED exitMsg
       ELSE /\ pc' = "exited"
            /\ exitMsg' = MsgArgumentInvalid
            /\ UNCHANGED out
    /\ UNCHANGED <<python, stop_at_error, nfiles, fileIdx, read, packages, pending,
                   calls, lastCheck>>

\* for filepath in args_files: the file's name is printed and the parser starts
BeginFile ==
    /\ pc = "files"
    /\ fileIdx < nfiles
    /\ fileIdx' = fileIdx + 1
    /\ out' = <<Printed("plain", FileName(fileIdx + 1) \o MsgFileRule)>>
    /\ read' = <<>>
    /\ packages' = EmptyDict
    /\ pending' = {}
    /\ calls' = <<>>
    /\ lastCheck' = NoCheck
    /\ pc' = "parse"
    /\ UNCHANGED <<python, stop_at_error, nfiles, exitMsg>>

\* one pass of the loop of parse_requirements_file
ParseLine ==
    /\ pc = "parse"
    /\ Len(read) < MaxLines
    /\ \E raw \in Lines :
         \E r \in {parse_line(raw, stop_at_error)} :
             /\ read' = Append(read, raw)
             /\ packages' = IF r.kind = "pin" THEN DictSet(packages, r.name, r.version)
                                              ELSE packages
             /\ out' = IF r.kind = "warn" THEN Append(out, Printed("yellow", r.msg)) ELSE out
             /\ exitMsg' = IF r.kind = "exit" THEN r.msg ELSE exitMsg
             /\ pc' = CASE r.kind = "exit"  -> "exited"
                        [] r.kind = "raise" -> "crashed"
                        [] OTHER            -> "parse"
    /\ UNCHANGED <<python, stop_at_error, nfiles, fileIdx, pending, calls, lastCheck>>

\* the file is exhausted: return packages, and check_packages starts on it
ReturnPackages ==
    /\ pc = "parse"
    /\ pending' = DOMAIN packages
    /\ read' = <<>>
    /\ pc' = "check"
    /\ UNCHANGED <<python, stop_at_error, nfiles, fileIdx, packages, out,
                   exitMsg, calls, lastCheck>>

\* one pass of the loop of check_packages; the dict's order is not the program's to choose
CheckPackage ==
    /\ pc = "check"
    /\ \E package_name \in pending, entry \in IndexEntries :
         \E r \in {check_package(package_name, packages[package_name], python, entry)} :
         LET said == r.colour # "none"
         IN  /\ pending' = pending \ {package_name}
             /\ calls' = calls \o r.calls
             /\ lastCheck' = [name |-> package_name, version |-> packages[package_name],
                              info |-> r.info, releases |-> r.releases,
                              fetched |-> r.fetched, latest |-> r.latest]
             /\ out' = IF said /\ ~stop_at_error
                       THEN Append(out, Printed(r.colour, r.msg)) ELSE out
             /\ exitMsg' = IF said /\ stop_at_error THEN r.msg ELSE exitMsg
             /\ pc' = IF said /\ stop_at_error THEN "exited" ELSE "check"
    /\ UNCHANGED <<python, stop_at_error, nfiles, fileIdx, read, packages>>

\* check_packages returns and main prints an empty line
EndFile ==
    /\ pc = "check"
    /\ pending = {}
    /\ out' = Append(out, Printed("plain", MsgNewline))
    /\ pc' = "files"
    /\ UNCHANGED <<python, stop_at_error, nfiles, fileIdx, read, packages, pending,
                   exitMsg, calls, lastCheck>>

\* the loop of main is over
Finish ==
    /\ pc = "files"
    /\ fileIdx = nfiles
    /\ pc' = "done"
    /\ UNCHANGED <<python, stop_at_error, nfiles, fileIdx, read, packages, pending,
                   out, exitMsg, calls, lastCheck>>

Next ==
    \/ ResolveFiles
    \/ DefaultFileMissing
    \/ ValidateVersion
    \/ BeginFile
    \/ ParseLine
    \/ ReturnPackages
    \/ CheckPackage
    \/ EndFile
    \/ Finish

Spec == Init /\ [][Next]_vars

----------------------------------------------------------------------------
(* What the claims speak of, stated without the program's own tests. *)

\* the line the parser consumed last
LastRead == read[Len(read)]

\* a step of the parser over one line, and a pass of the loop of check_packages
ParseStep == pc = "parse" /\ Len(read') = Len(read) + 1

CheckStep == pc = "check" /\ Len(calls') > Len(calls)

\* a line that is empty after trimming or starts with '#', 'git+', 'hg+', 'svn+' or 'bzr+'
SkippedLine(raw) ==
    LET t == strip(raw)
    IN  \/ t = <<>>
        \/ \E p \in { <<"#">>, <<"g","i","t","+">>, <<"h","g","+">>,
                      <<"s","v","n","+">>, <<"b","z","r","+">> } :
               Len(t) >= Len(p) /\ \A i \in 1..Len(p) : t[i] = p[i]

\* the places of a line where '==' stands
DelimiterAt(t) == { i \in 1..(Len(t) - 1) : t[i] = "=" /\ t[i + 1] = "=" }

\* a line that is not skipped and holds no '=='
UnpinnedLine(raw) == ~SkippedLine(raw) /\ DelimiterAt(strip(raw)) = {}

\* a line that is not skipped and holds '==' at least once
DelimitedLine(raw) == ~SkippedLine(raw) /\ DelimiterAt(strip(raw)) # {}

\* a pin `name==version`: a line that is not skipped and holds '==' once
PinLine(raw) == ~SkippedLine(raw) /\ Cardinality(DelimiterAt(strip(raw))) = 1

PinName(raw) ==
    LET t == strip(raw) IN SubSeq(t, 1, (CHOOSE i \in DelimiterAt(t) : TRUE) - 1)

PinVersion(raw) ==
    LET t == strip(raw) IN SubSeq(t, (CHOOSE i \in DelimiterAt(t) : TRUE) + 2, Len(t))

\* the entries a sequence of lines pins, the last pin of a name winning
PinnedEntries(lines) ==
    LET pins == { i \in 1..Len(lines) : PinLine(lines[i]) }
        last(n) == CHOOSE i \in pins :
                       /\ PinName(lines[i]) = n
                       /\ \A j \in pins : PinName(lines[j]) = n => j <= i
    IN  [n \in { PinName(lines[i]) : i \in pins } |-> PinVersion(lines[last(n)])]

\* the message of the last pass of the loop of check_packages, when it said something
LastMessage == IF stop_at_error THEN exitMsg ELSE out[Len(out)].text

----------------------------------------------------------------------------
(* C1 *)

\* C1: a line that is empty after trimming or starts with '#', 'git+', 'hg+',
\* 'svn+' or 'bzr+' changes neither the mapping nor the output and does not
\* end the run, in either mode and wherever it stands; and while the lines
\* read are only such lines and `name==version` pins, the mapping holds
\* exactly the pinned entries (none for an empty or comment-only file).
C1_SkippedLinesLeaveNoTrace ==
    /\ [][ (ParseStep /\ SkippedLine(read'[Len(read')]))
             => /\ packages' = packages
                /\ out' = out
                /\ exitMsg' = exitMsg
                /\ pc' = "parse" ]_vars
    /\ [](  (pc = "parse" /\ \A i \in 1..Len(read) : SkippedLine(read[i]) \/ PinLine(read[i]))
             => packages = PinnedEntries(read) )

\* a VCS line after a pin, in strict mode: the mapping holds the pin alone
C1_Witness ==
    /\ pc = "parse"
    /\ stop_at_error
    /\ Len(read) = 2
    /\ PinLine(read[1])
    /\ startswith(strip(read[2]), <<"b","z","r","+">>)
    /\ DOMAIN packages = {PinName(read[1])}

----------------------------------------------------------------------------
(* C2 *)

\* C2: a line that is not skipped and holds no '==': in lenient mode the
\* warning is printed, the mapping is left as it was and the parser goes on;
\* in strict mode the process ends at that line, so that the mapping is never
\* returned and no lookup is made for the file.
C2_UnpinnedLine ==
    /\ [][ (ParseStep /\ UnpinnedLine(read'[Len(read')]))
             => /\ packages' = packages
                /\ calls' = calls
                /\ IF stop_at_error
                   THEN /\ pc' = "exited"
                        /\ exitMsg' = strip(read'[Len(read')]) \o MsgNoVersion
                        /\ out' = out
                   ELSE /\ pc' = "parse"
                        /\ out' = Append(out, Printed("yellow",
                                          strip(read'[Len(read')]) \o MsgNoVersion))
                        /\ exitMsg' = exitMsg ]_vars
    /\ []( (pc = "exited" /\ read # <<>>) => (calls = <<>> /\ pending = {}) )
    /\ [][ pc = "exited" => pc' = "exited" ]_vars

\* lenient mode: a pin read after an unpinned line is recorded
C2_Witness ==
    /\ pc = "parse"
    /\ ~stop_at_error
    /\ Len(read) = 2
    /\ UnpinnedLine(read[1])
    /\ PinLine(read[2])
    /\ DOMAIN packages = {PinName(read[2])}
    /\ out[Len(out)].colour = "yellow"

----------------------------------------------------------------------------
(* C10 *)

\* C10: a line that is not skipped and holds '==', once or more than once,
\* is recorded as one name with one version and the parser goes on: it never
\* makes the parser fail, in either mode.
C10_DelimitedLineIsRecorded ==
    (read # <<>> /\ DelimitedLine(LastRead))
        => /\ pc = "parse"
           /\ \E n \in DOMAIN packages :
                  startswith(strip(LastRead), n \o PinDelimiter \o packages[n])

----------------------------------------------------------------------------
(* The passes of the loop of check_packages. *)

\* the part of a version string before its first '.'
MajorPrefix(t) ==
    LET dots == { i \in 1..Len(t) : t[i] = "." }
    IN  IF dots = {} THEN t
        ELSE SubSeq(t, 1, (CHOOSE i \in dots : \A j \in dots : i <= j) - 1)

\* the set of supported versions holds the exact target or its major prefix
TargetSupported(t, supported) ==
    \/ \E i \in 1..Len(supported) : supported[i] = t
    \/ \E i \in 1..Len(supported) : supported[i] = MajorPrefix(t)

\* the two calls a pass starts with, and the lookup of the newest release
TwoCalls(c) ==
    << [method |-> "release_data", name |-> c.name, version |-> c.version],
       [method |-> "package_releases", name |-> c.name, version |-> <<>>] >>

NewestCall(c) ==
    [method |-> "release_data", name |-> c.name, version |-> c.releases[1]]

\* the pass found releases and the pinned one does not support the target
Unsupported(c) ==
    /\ c.releases # <<>>
    /\ ~TargetSupported(python, get_supported_pythons(c.info))

----------------------------------------------------------------------------
(* C3 *)

\* C3: when the release list is not empty and the pinned release's supported
\* versions hold the exact target or its major prefix, the pass says nothing,
\* does not end the run in either mode, makes the two first calls alone (the
\* newest release is not fetched) and leaves the loop at the next package.
C3_CompatibleIsSilent ==
    [][ (CheckStep /\ lastCheck'.releases # <<>>
           /\ TargetSupported(python, get_supported_pythons(lastCheck'.info)))
          => /\ out' = out
             /\ exitMsg' = exitMsg
             /\ pc' = "check"
             /\ ~lastCheck'.fetched
             /\ calls' = calls \o TwoCalls(lastCheck')
             /\ pending' = pending \ {lastCheck'.name} ]_vars

\* strict mode, target 3.6, a pinned release that declares 3 and not 3.6
C3_Witness ==
    /\ pc = "check"
    /\ stop_at_error
    /\ python = <<"3",".","6">>
    /\ lastCheck.name # <<>>
    /\ lastCheck.releases # <<>>
    /\ InList(<<"3">>, get_supported_pythons(lastCheck.info))
    /\ ~InList(python, get_supported_pythons(lastCheck.info))
    /\ Len(calls) = 2

----------------------------------------------------------------------------
(* C4 *)

\* C4: when the release list is empty the pass reports "not available on pip"
\* whatever the pinned release's metadata holds, and makes the two first calls
\* alone; in strict mode the run ends there and no call follows, in lenient
\* mode the message is printed and the loop goes on.
C4_NoReleases ==
    /\ [][ (CheckStep /\ lastCheck'.releases = <<>>)
             => /\ ~lastCheck'.fetched
                /\ calls' = calls \o TwoCalls(lastCheck')
                /\ pending' = pending \ {lastCheck'.name}
                /\ IF stop_at_error
                   THEN /\ pc' = "exited"
                        /\ exitMsg' = lastCheck'.name \o <<"=">> \o lastCheck'.version
                                        \o MsgNotAvailable
                        /\ out' = out
                   ELSE /\ pc' = "check"
                        /\ out' = Append(out, Printed("red",
                                     lastCheck'.name \o <<"=">> \o lastCheck'.version
                                        \o MsgNotAvailable))
                        /\ exitMsg' = exitMsg ]_vars
    /\ [][ pc = "exited" => calls' = calls ]_vars

\* strict mode: the index lists no release although the metadata it returns
\* declares the target, and a package is left unchecked
C4_Witness ==
    /\ pc = "exited"
    /\ stop_at_error
    /\ lastCheck.name # <<>>
    /\ lastCheck.releases = <<>>
    /\ InList(python, get_supported_pythons(lastCheck.info))
    /\ pending # {}
    /\ Len(calls) = 2

----------------------------------------------------------------------------
(* C7 *)

\* how grave the outcome of the last pass is: sys.exit ends the process with
\* the message as its error, a red line is an error, a yellow line a warning
Severity ==
    IF pc = "exited" THEN "error"
    ELSE IF out[Len(out)].colour = "red" THEN "error" ELSE "warning"

\* C7 as stated: in both modes an unsupported pinned release with declared
\* versions is an error, one with no declared versions is a softer warning.
C7_SeverityDiffersInBothModes ==
    (pc \in {"check", "exited"} /\ lastCheck.fetched)
        => Severity = IF get_supported_pythons(lastCheck.info) # <<>>
                      THEN "error" ELSE "warning"

\* C7 amended: the two outcomes differ in message text in both modes ("not
\* compatible with Python <target>" when versions are declared, "version not
\* specified" when none is); they differ in severity in lenient mode only
\* (a red error against a yellow warning); in strict mode both end the
\* process through sys.exit with their message.
C7_TwoOutcomes ==
    [][ (CheckStep /\ Unsupported(lastCheck'))
          => LET c == lastCheck'
                 declared == get_supported_pythons(c.info) # <<>>
                 text == IF declared
                         THEN c.name \o <<"=">> \o c.version \o MsgNotCompatible \o python
                         ELSE c.name \o <<"=">> \o c.version \o MsgNotSpecified
             IN  IF stop_at_error
                 THEN /\ pc' = "exited"
                      /\ startswith(exitMsg', text)
                      /\ out' = out
                 ELSE /\ pc' = "check"
                      /\ Len(out') = Len(out) + 1
                      /\ startswith(out'[Len(out')].text, text)
                      /\ out'[Len(out')].colour = IF declared THEN "red" ELSE "yellow"
                      /\ exitMsg' = exitMsg ]_vars

\* strict mode: a pinned release with no declared versions ends the run
C7_Witness ==
    /\ pc = "exited"
    /\ stop_at_error
    /\ lastCheck.fetched
    /\ get_supported_pythons(lastCheck.info) = <<>>
    /\ startswith(exitMsg, lastCheck.name \o <<"=">> \o lastCheck.version \o MsgNotSpecified)

----------------------------------------------------------------------------
(* C8 *)

----------------------------------------------------------------------------
(* C9 *)

\* C9: when the pinned release is not compatible, the message names the newest
\* version as the upgrade whenever check_packages' own rule (exact target or
\* major prefix) would pass the newest release, and only then.
C9_SuggestsWheneverNewestCompatible ==
    (pc \in {"check", "exited"} /\ lastCheck.fetched)
        => ( TargetSupported(python, get_supported_pythons(lastCheck.latest))
               <=> Contains(LastMessage, MsgUpdateTo \o lastCheck.releases[1]) )

----------------------------------------------------------------------------
(* C5 *)

ConditionPrinted == \E i \in 1..Len(out) : out[i].colour # "plain"

\* the number of calls of package_releases made for a package of the current file
TimesChecked(n) ==
    Cardinality({ i \in 1..Len(calls) :
                    calls[i].method = "package_releases" /\ calls[i].name = n })

\* C5: over a whole run, in strict mode a warning-level condition is never
\* merely printed, it ends the process with its message; in lenient mode it
\* is printed and the run goes on through every remaining package and file
\* to its end, each package of a file being checked exactly once.
C5_WholeRun ==
    /\ stop_at_error => ~ConditionPrinted
    /\ pc = "exited" => exitMsg # <<>>
    /\ (~stop_at_error /\ ConditionPrinted) => pc \notin {"exited", "crashed"}
    /\ pc = "done" => fileIdx = nfiles
    /\ pc = "check" =>
          \A n \in DOMAIN packages : TimesChecked(n) = IF n \in pending THEN 0 ELSE 1

----------------------------------------------------------------------------
(* C6 *)

\* X.Y with X 2 or 3, Y one digit and a literal dot between them
FormatXY(s) ==
    /\ Len(s) = 3
    /\ s[1] \in {"2", "3"}
    /\ s[2] = "."
    /\ s[3] \in {"0","1","2","3","4","5","6","7","8","9"}

\* C6: a file is opened for parsing, a line parsed or a lookup made only when
\* args.python is in X.Y format; any other argument ends the run with the
\* invalid-argument message, in both modes.
C6_OnlyXYGetsPast ==
    /\ fileIdx > 0 => FormatXY(python)
    /\ (~FormatXY(python) /\ pc \notin {"args", "version"} /\ nfiles > 0)
          => (pc = "exited" /\ exitMsg = MsgArgumentInvalid /\ fileIdx = 0)

====
